---- MODULE Spec2Model ----
(***************************************************************************)
(* MDSynthesis/Core/Files.py: the locking file wrapper (File), the         *)
(* container state file (ContainerFile) with its tags and categories       *)
(* tables, and the _read/_write access decorators.                         *)
(*                                                                         *)
(* Three specifications share the data layer below:                        *)
(*   Spec       processes calling the decorated methods of an existing     *)
(*              store, one statement group per step, with the fcntl locks  *)
(*   SpecNew    the same, starting from a path with no file: __init__      *)
(*              (existence check, create) precedes the calls               *)
(*   SpecStore  one process, one whole call per step, with arguments that  *)
(*              exercise str() and the 36 byte string columns              *)
(***************************************************************************)
EXTENDS Integers, Sequences, FiniteSets, TLC

\* ------------------------------------------------------------------ bounds
NumProcs == 2      \* processes in Spec and SpecNew
Over == 2          \* argument strings are at most TagWidth + Over characters
MaxCalls == 2      \* calls after construction in SpecStore

\* --------------------------------------------------------- Python values
\* StringCol(36) of _Tags.tag, _Categories.category and _Categories.value
TagWidth == 36
CategoryWidth == 36
ValueWidth == 36

Min(a, b) == IF a < b THEN a ELSE b

\* c repeated n times: the character sequence of a str
Rep(c, n) == [i \in 1..n |-> c]

\* A Python object: a str, an int (s holds its decimal digits), or an object
\* whose str() raises (a non-ASCII unicode under Python 2).
PyStr(s) == [t |-> "str", s |-> s]
PyInt(s) == [t |-> "int", s |-> s]
PyBad == [t |-> "bad", s |-> <<>>]

\* str(x): defined when x converts; the characters of the resulting str
CanStr(x) == x.t # "bad"
str(x) == x.s

\* Assignment of a str to a StringCol(width) field of a row: numpy keeps
\* the first width bytes and drops the rest without an error.
StringCol(width, s) == SubSeq(s, 1, Min(Len(s), width))

\* sequences listing each element of the finite set S exactly once
Orders(S) == {o \in [1..Cardinality(S) -> S] : \A x \in S : \E i \in DOMAIN o : o[i] = x}

Range(f) == {f[i] : i \in DOMAIN f}

\* ------------------------------------------------------- the state file
\* The HDF5 file: the nodes under '/', and the rows of each table. A tags
\* row is the characters of its tag field; a categories row has the fields
\* category and value.
NoFile == [exists |-> FALSE, nodes |-> {}, meta |-> <<>>, coordinator |-> <<>>,
           tags |-> <<>>, categories |-> <<>>]

\* tables.open_file(filename, 'w'): a new, empty file replaces what is there
open_file_w == [NoFile EXCEPT !.exists = TRUE]

\* table.remove_row(n), n counted from 0; a row number past the end removes
\* nothing
remove_row(table, n) ==
    IF n < 0 \/ n >= Len(table) THEN table
    ELSE [i \in 1..(Len(table) - 1) |-> IF i <= n THEN table[i] ELSE table[i + 1]]

\* ContainerFile.create, lines 205-241: the four tables written through the
\* handle. tags is the list given, categories the (key, value) pairs of the
\* dict in the order of categories.keys(); uuid stands for str(uuid4()).
create_tags(tags) == [i \in 1..Len(tags) |-> StringCol(TagWidth, str(tags[i]))]

create_categories(categories) ==
    [i \in 1..Len(categories) |->
        [category |-> StringCol(CategoryWidth, str(categories[i][1])),
         value |-> StringCol(ValueWidth, str(categories[i][2]))]]

create_tables(f, uuid, tags, categories) ==
    [f EXCEPT !.nodes = {"meta", "coordinator", "tags", "categories"},
              !.meta = <<uuid>>,
              !.coordinator = <<"None">>,
              !.tags = create_tags(tags),
              !.categories = create_categories(categories)]

\* get_tags, lines 292-293: one str per row, in row order
get_tags(f) == [i \in 1..Len(f.tags) |-> PyStr(f.tags[i])]

\* get_categories, lines 383-384: the dict built row by row, a later row
\* replacing the value of an earlier one with the same key; as the set of
\* its (key, value) items
get_categories(f) ==
    {<<PyStr(f.categories[i].category), PyStr(f.categories[i].value)>> :
        i \in {j \in 1..Len(f.categories) :
                 \A k \in (j + 1)..Len(f.categories) :
                     f.categories[k].category # f.categories[j].category}}

\* add_tags, lines 310-320: the set of str(tag), less those equal to the tag
\* of some row
add_tags_new(table, tags) ==
    LET given == {str(tags[i]) : i \in DOMAIN tags}
        tags_present == {tag \in given : \E r \in DOMAIN table : table[r] = tag}
    IN  given \ tags_present

\* add_tags, lines 323-325: one row appended per new tag, in the order the
\* list built from the set has
add_tags_append(table, new) ==
    table \o [i \in 1..Len(new) |-> StringCol(TagWidth, new[i])]

\* del_tags, lines 355-359: the numbers (from 0) of the rows whose tag is
\* one of those given
matching_rows(keys, given) ==
    LET hit(n) == keys[n + 1] \in given
    IN  SelectSeq([i \in 1..Len(keys) |-> i - 1], hit)

\* the loop of lines 371-373 with j left at 0: remove_row(i)
RECURSIVE remove_unshifted(_, _, _)
remove_unshifted(table, rowlist, j) ==
    IF rowlist = <<>> THEN table
    ELSE remove_unshifted(remove_row(table, Head(rowlist)), Tail(rowlist), j)

\* del_tags, lines 367-373: rowlist sorted, then each row removed at its
\* number less the count of rows removed before it
RECURSIVE remove_shifted(_, _, _)
remove_shifted(table, rowlist, j) ==
    IF rowlist = <<>> THEN table
    ELSE remove_shifted(remove_row(table, Head(rowlist) - j), Tail(rowlist), j + 1)

remove_rows(table, rowlist) ==
    remove_shifted(table, SortSeq(rowlist, LAMBDA a, b : a < b), 0)

\* table.remove() taking the other table with it: both come back empty
recreate_both(f, name) ==
    [f EXCEPT !.nodes = @ \cup {name}, !.tags = <<>>, !.categories = <<>>]

\* table.remove() followed by create_table of the same name, lines 347-348
\* and 364-365 (442, 457-458 for categories)
recreate(f, name) ==
    LET removed == [f EXCEPT !.nodes = @ \ {name}]
    IN  IF name = "tags"
        THEN [removed EXCEPT !.nodes = @ \cup {name}, !.tags = <<>>]
        ELSE [removed EXCEPT !.nodes = @ \cup {name}, !.categories = <<>>]

\* del_tags with <= for == at line 363
del_tags_apply_le(f, rowlist, purge) ==
    IF purge THEN recreate(f, "tags")
    ELSE IF Len(rowlist) <= Len(f.tags) THEN recreate(f, "tags")
    ELSE [f EXCEPT !.tags = remove_rows(f.tags, rowlist)]

\* del_tags, lines 346-373, on the rows read at lines 356-359
del_tags_apply(f, rowlist, purge) ==
    IF purge THEN recreate(f, "tags")
    ELSE IF Len(rowlist) = Len(f.tags) THEN recreate(f, "tags")
    ELSE [f EXCEPT !.tags = remove_rows(f.tags, rowlist)]

\* del_categories with the table of del_tags recreated and shortened
del_categories_apply_tags(f, rowlist, purge) ==
    IF purge THEN recreate(f, "tags")
    ELSE IF Len(rowlist) = Len(f.categories) THEN recreate(f, "tags")
    ELSE [f EXCEPT !.tags = remove_rows(f.tags, rowlist)]

\* del_categories, lines 440-466
del_categories_apply(f, rowlist, purge) ==
    IF purge THEN recreate(f, "categories")
    ELSE IF Len(rowlist) = Len(f.categories) THEN recreate(f, "categories")
    ELSE [f EXCEPT !.categories = remove_rows(f.categories, rowlist)]

\* add_categories, lines 406-413: row by row, the first pending key equal
\* to the row's category gives the row its value and leaves the dict.
\* categories is the (key, value) pairs of the dict in keys() order (a list
\* under Python 2, so the pop inside the loop is safe). The result is the
\* table, the pairs left, and whether str() raised.
RECURSIVE add_categories_scan(_, _, _)
add_categories_scan(table, r, categories) ==
    IF r > Len(table) THEN [table |-> table, categories |-> categories, raised |-> FALSE]
    ELSE LET hit(kv) == table[r].category = kv[1]
             hits == SelectSeq(categories, hit)
             miss(kv) == ~hit(kv)
         IN  IF hits = <<>> THEN add_categories_scan(table, r + 1, categories)
             ELSE IF ~CanStr(hits[1][2])
             THEN [table |-> table, categories |-> categories, raised |-> TRUE]
             ELSE add_categories_scan(
                      [table EXCEPT ![r].value = StringCol(ValueWidth, str(hits[1][2]))],
                      r + 1, SelectSeq(categories, miss))

\* add_categories, lines 416-419: a row appended for each key left, up to
\* the first value str() raises on
add_categories_append(table, categories) ==
    LET bad == {i \in DOMAIN categories : ~CanStr(categories[i][2])}
        n == IF bad = {} THEN Len(categories)
             ELSE (CHOOSE i \in bad : \A j \in bad : i <= j) - 1
    IN  table \o [i \in 1..n |->
                     [category |-> StringCol(CategoryWidth, categories[i][1]),
                      value |-> StringCol(ValueWidth, str(categories[i][2]))]]

category_keys(table) == [i \in 1..Len(table) |-> table[i].category]

\* ---------------------------------------------------------------- calls
\* A call of a method of ContainerFile: op is the method's name, args its
\* positional arguments (for add_categories the (key, value) pairs of its
\* keywords, for create the tags list), cats the categories of create, all
\* the keyword all of del_tags and del_categories.
Call(op, args, cats, all) == [op |-> op, args |-> args, cats |-> cats, all |-> all]

ReadOps == {"get_tags", "get_categories"}
WriteOps == {"add_tags", "del_tags", "add_categories", "del_categories"}

\* create as ContainerFile has it, and as SimFile extends it (line 577)
Creates == {"create", "SimFile.create"}

\* the table a method gets with get_node
NodeOf(op) == IF op \in {"get_tags", "add_tags", "del_tags"} THEN "tags" ELSE "categories"

\* the mode the file is opened in: _read 'r' (line 257), _write 'a' (line
\* 276), create 'w' (line 202)
ModeOf(op) == IF op \in ReadOps THEN "r" ELSE IF op = "create" THEN "w" ELSE "a"

AllStr(args) == \A i \in DOMAIN args : CanStr(args[i])

\* What the first part of a method's body does with the file f: from
\* get_node to the end of the loop over the rows. The result: the file
\* (add_categories updates rows in that loop), what the rest of the body
\* works on (work), the value a read method returns (value), and the
\* exception raised, "" when none. order is the order list() gives the set
\* of new tags at line 320.
Scanned(f, work, value, exc) == [file |-> f, work |-> work, value |-> value, exc |-> exc]

scan(f, c, order) ==
    IF NodeOf(c.op) \notin f.nodes THEN Scanned(f, <<>>, <<>>, "NoSuchNodeError")
    ELSE IF c.op = "get_tags" THEN Scanned(f, <<>>, get_tags(f), "")
    ELSE IF c.op = "get_categories" THEN Scanned(f, <<>>, get_categories(f), "")
    ELSE IF c.op = "add_tags" THEN
        IF ~AllStr(c.args) THEN Scanned(f, <<>>, <<>>, "UnicodeEncodeError")
        ELSE Scanned(f, order, <<>>, "")
    ELSE IF c.op \in {"del_tags", "del_categories"} THEN
        IF c.all THEN Scanned(f, <<>>, <<>>, "")
        ELSE IF ~AllStr(c.args) THEN Scanned(f, <<>>, <<>>, "UnicodeEncodeError")
        ELSE LET given == {str(c.args[i]) : i \in DOMAIN c.args}
                 keys == IF c.op = "del_tags" THEN f.tags ELSE category_keys(f.categories)
             IN  Scanned(f, matching_rows(keys, given), <<>>, "")
    ELSE \* add_categories
        LET r == add_categories_scan(f.categories, 1, c.args)
        IN  Scanned([f EXCEPT !.categories = r.table], r.categories, <<>>,
                    IF r.raised THEN "UnicodeEncodeError" ELSE "")

\* the orders line 320 can give the new tags of the call c on the file f
scan_orders(f, c) ==
    IF c.op = "add_tags" /\ AllStr(c.args) /\ "tags" \in f.nodes
    THEN Orders(add_tags_new(f.tags, c.args))
    ELSE {<<>>}

\* What the rest of the body does with the file f, given the work of the
\* first part: the rows appended or removed, the table recreated.
apply(f, c, work) ==
    IF c.op = "add_tags" THEN [f EXCEPT !.tags = add_tags_append(@, work)]
    ELSE IF c.op = "del_tags" THEN del_tags_apply(f, work, c.all)
    ELSE IF c.op = "del_categories" THEN del_categories_apply(f, work, c.all)
    ELSE IF c.op = "add_categories"
    THEN [f EXCEPT !.categories = add_categories_append(@, work)]
    ELSE f

\* the exception the rest of the body raises, "" when none
apply_exc(c, work) ==
    IF c.op = "add_categories" /\ \E i \in DOMAIN work : ~CanStr(work[i][2])
    THEN "UnicodeEncodeError" ELSE ""

\* A whole call on the file f with no other process at work: the results
\* it can have.
run(f, c) ==
    {LET s == scan(f, c, order)
     IN  IF s.exc # "" THEN [file |-> s.file, value |-> s.value, exc |-> s.exc]
         ELSE [file |-> apply(s.file, c, s.work), value |-> s.value,
               exc |-> apply_exc(c, s.work)] :
     order \in scan_orders(f, c)}

\* ---------------------------------------------------------------- state
VARIABLES
    file,     \* the state file on disk
    nuuid,    \* how many uuid4() values have been drawn
    pc,       \* where each process is in its call
    call,     \* the call each process is making
    handle,   \* self.handle of each process: "closed" or the mode it is open in
    lock,     \* the fcntl lock each process holds on the file
    work,     \* the locals of the method body between its two parts
    out,      \* what the call gave its caller: the value returned, the exception
    file0,    \* the file when the processes started
    made,     \* SpecStore: the arguments create was given
    last,     \* SpecStore: the last call and what it gave
    prev,     \* SpecStore: the call before the last
    pre,      \* SpecStore: the file before the last call
    ncalls,   \* SpecStore: calls made
    ops,      \* SpecStore: the methods called so far
    latest    \* SpecStore: the (key, value) pairs add_categories was given,
              \*            for each key the pair of the latest call naming it

procVars == <<pc, call, handle, lock, work, out, file0>>
storeVars == <<made, last, prev, pre, ncalls, ops, latest>>
vars == <<file, nuuid, pc, call, handle, lock, work, out, file0,
          made, last, prev, pre, ncalls, ops, latest>>

Procs == 1..NumProcs

NoCall == Call("", <<>>, <<>>, FALSE)
\* What inner hands to the caller of a method: None, the list of get_tags
\* (line 293), the dict of get_categories (line 384)
PyNone == [t |-> "None"]
Returned(op, value) ==
    IF op = "get_tags" THEN [t |-> "list", elems |-> value]
    ELSE IF op = "get_categories" THEN [t |-> "dict", items |-> value]
    ELSE PyNone

NoOut == [value |-> PyNone, exc |-> ""]
NoRecord == [call |-> NoCall, value |-> <<>>, exc |-> ""]

\* ----------------------------------------------- arguments of Spec, SpecNew
A == <<"a">>
B == <<"b">>
K == <<"k">>
V1 == <<"v", "1">>
V2 == <<"v", "2">>

ProcCalls ==
    {Call("add_tags", <<PyStr(A)>>, <<>>, FALSE),
     Call("add_tags", <<PyStr(A), PyStr(B)>>, <<>>, FALSE),
     Call("add_tags", <<PyBad>>, <<>>, FALSE),
     Call("del_tags", <<PyStr(A)>>, <<>>, FALSE),
     Call("del_tags", <<>>, <<>>, TRUE),
     Call("add_categories", <<<<K, PyStr(V2)>>>>, <<>>, FALSE),
     Call("del_categories", <<PyStr(K)>>, <<>>, FALSE),
     Call("get_tags", <<>>, <<>>, FALSE),
     Call("get_categories", <<>>, <<>>, FALSE)}

ProcCreates ==
    {Call("create", <<>>, <<>>, FALSE),
     Call("create", <<PyStr(A), PyStr(B)>>, <<<<PyStr(K), PyStr(V1)>>>>, FALSE)}

\* ------------------------------------------------- the steps of a process
\* fcntl.lockf blocks while another process holds a conflicting lock
OthersHold(p, kinds) == \E q \in Procs \ {p} : lock[q] \in kinds

Raise(p, exc) ==
    /\ pc' = [pc EXCEPT ![p] = "raised"]
    /\ out' = [out EXCEPT ![p] = [value |-> PyNone, exc |-> exc]]

\* ContainerFile.__init__, lines 180-181: create is called when the path
\* has no file
check_existence(p) ==
    /\ pc[p] = "new"
    /\ pc' = [pc EXCEPT ![p] = IF file.exists THEN "ready" ELSE "create"]
    /\ UNCHANGED <<file, nuuid, call, handle, lock, work, out, file0>>
    /\ UNCHANGED storeVars

\* create, line 202: the file is opened 'w'
create_open(p) ==
    /\ pc[p] = "create"
    /\ \E c \in ProcCreates : call' = [call EXCEPT ![p] = c]
    /\ file' = open_file_w
    /\ handle' = [handle EXCEPT ![p] = "w"]
    /\ pc' = [pc EXCEPT ![p] = "opened"]
    /\ UNCHANGED <<nuuid, lock, work, out, file0>>
    /\ UNCHANGED storeVars

\* inner of _read and _write, lines 257 and 276: the file is opened
open_file(p) ==
    /\ pc[p] = "ready"
    /\ file.exists
    /\ \E c \in ProcCalls :
         /\ call' = [call EXCEPT ![p] = c]
         /\ handle' = [handle EXCEPT ![p] = ModeOf(c.op)]
    /\ pc' = [pc EXCEPT ![p] = "opened"]
    /\ UNCHANGED <<file, nuuid, lock, work, out, file0>>
    /\ UNCHANGED storeVars

\* _shlock, line 50, called by inner of _read and by _exlock
shlock(p) ==
    /\ pc[p] = "opened"
    /\ ~OthersHold(p, {"ex"})
    /\ lock' = [lock EXCEPT ![p] = "sh"]
    /\ pc' = [pc EXCEPT ![p] = IF call[p].op \in ReadOps THEN "locked" ELSE "shared"]
    /\ UNCHANGED <<file, nuuid, call, handle, work, out, file0>>
    /\ UNCHANGED storeVars

\* _exlock without line 68: it returns with the shared lock alone
exlock_shared_only(p) ==
    /\ pc[p] \in {"shared", "exwait"}
    /\ pc' = [pc EXCEPT ![p] = "locked"]
    /\ UNCHANGED <<file, nuuid, call, handle, lock, work, out, file0>>
    /\ UNCHANGED storeVars

\* _exlock, line 68: lockf(LOCK_EX) returns once no other process holds a
\* lock on the file
exlock(p) ==
    /\ pc[p] \in {"shared", "exwait"}
    /\ ~OthersHold(p, {"sh", "ex"})
    /\ lock' = [lock EXCEPT ![p] = "ex"]
    /\ pc' = [pc EXCEPT ![p] = "locked"]
    /\ UNCHANGED <<file, nuuid, call, handle, work, out, file0>>
    /\ UNCHANGED storeVars

\* _exlock, line 68: lockf(LOCK_EX) waits, the shared lock still held
exlock_wait(p) ==
    /\ pc[p] = "shared"
    /\ OthersHold(p, {"sh", "ex"})
    /\ pc' = [pc EXCEPT ![p] = "exwait"]
    /\ UNCHANGED <<file, nuuid, call, handle, lock, work, out, file0>>
    /\ UNCHANGED storeVars

\* _exlock, line 68: a process whose lock is in the way is itself waiting
\* for the exclusive lock, and the system may refuse the request with
\* EDEADLK instead of letting it wait; lockf raises IOError, which leaves
\* inner (and create) at once
exlock_deadlk(p) ==
    /\ pc[p] = "shared"
    /\ \E q \in Procs \ {p} : lock[q] # "none" /\ pc[q] = "exwait"
    /\ Raise(p, "IOError")
    /\ UNCHANGED <<file, nuuid, call, handle, lock, work, file0>>
    /\ UNCHANGED storeVars

\* create, lines 205-241: the four tables are written
create_body(p) ==
    /\ pc[p] = "locked"
    /\ call[p].op \in Creates
    /\ file' = create_tables(file, nuuid + 1, call[p].args, call[p].cats)
    /\ nuuid' = nuuid + 1
    /\ pc' = [pc EXCEPT ![p] = "ran"]
    /\ UNCHANGED <<call, handle, lock, work, out, file0>>
    /\ UNCHANGED storeVars

\* inner with the call of func inside try/except: an exception of func is
\* dropped, the file closed and None returned
body_scan_swallow(p) ==
    /\ pc[p] = "locked"
    /\ call[p].op \notin Creates
    /\ \E order \in scan_orders(file, call[p]) :
         LET s == scan(file, call[p], order)
         IN  /\ file' = s.file
             /\ IF s.exc # "" \/ call[p].op \in ReadOps
                THEN /\ pc' = [pc EXCEPT ![p] = "ran"]
                     /\ out' = [out EXCEPT ![p] = [value |-> Returned(call[p].op, s.value), exc |-> ""]]
                     /\ UNCHANGED work
                ELSE /\ pc' = [pc EXCEPT ![p] = "scanned"]
                     /\ work' = [work EXCEPT ![p] = s.work]
                     /\ UNCHANGED out
    /\ UNCHANGED <<nuuid, call, handle, lock, file0>>
    /\ UNCHANGED storeVars

\* func(self, ...) at lines 259 and 278, its first part
body_scan(p) ==
    /\ pc[p] = "locked"
    /\ call[p].op \notin Creates
    /\ \E order \in scan_orders(file, call[p]) :
         LET s == scan(file, call[p], order)
         IN  /\ file' = s.file
             /\ IF s.exc # "" THEN Raise(p, s.exc) /\ UNCHANGED work
                ELSE IF call[p].op \in ReadOps
                THEN /\ pc' = [pc EXCEPT ![p] = "ran"]
                     /\ out' = [out EXCEPT ![p] = [value |-> Returned(call[p].op, s.value), exc |-> ""]]
                     /\ UNCHANGED work
                ELSE /\ pc' = [pc EXCEPT ![p] = "scanned"]
                     /\ work' = [work EXCEPT ![p] = s.work]
                     /\ UNCHANGED out
    /\ UNCHANGED <<nuuid, call, handle, lock, file0>>
    /\ UNCHANGED storeVars

\* func(self, ...) at line 278, its second part
body_apply(p) ==
    /\ pc[p] = "scanned"
    /\ file' = apply(file, call[p], work[p])
    /\ IF apply_exc(call[p], work[p]) # "" THEN Raise(p, apply_exc(call[p], work[p]))
       ELSE pc' = [pc EXCEPT ![p] = "ran"] /\ UNCHANGED out
    /\ UNCHANGED <<nuuid, call, handle, lock, work, file0>>
    /\ UNCHANGED storeVars

\* self.handle.close(), lines 244, 260 and 279: the lock goes with the
\* handle; inner returns out, __init__ returns, SimFile.create goes on at
\* line 579
close(p) ==
    /\ pc[p] = "ran"
    /\ handle' = [handle EXCEPT ![p] = "closed"]
    /\ lock' = [lock EXCEPT ![p] = "none"]
    /\ pc' = [pc EXCEPT ![p] = IF call[p].op = "create" THEN "ready"
                                ELSE IF call[p].op = "SimFile.create" THEN "reopen"
                                ELSE "done"]
    /\ UNCHANGED <<file, nuuid, call, work, out, file0>>
    /\ UNCHANGED storeVars

\* ------------------------------------------------------------- SimFile
\* SimFile.__init__, line 553: location is no name of the method or of the
\* module, so the call raises NameError; where the module has been given a
\* global of that name, ContainerFile.__init__ runs (lines 180-181) and
\* calls self.create, which is SimFile.create, when the path has no file
SimFile_init(p) ==
    /\ pc[p] = "new"
    /\ \/ Raise(p, "NameError")
       \/ /\ pc' = [pc EXCEPT ![p] = IF file.exists THEN "ready" ELSE "simcreate"]
          /\ UNCHANGED out
    /\ UNCHANGED <<file, nuuid, call, handle, lock, work, file0>>
    /\ UNCHANGED storeVars

\* SimFile.create, line 577: ContainerFile.create is called, which opens
\* the file 'w' at line 202
SimFile_create_open(p) ==
    /\ pc[p] = "simcreate"
    /\ \E c \in ProcCreates :
         call' = [call EXCEPT ![p] = Call("SimFile.create", c.args, c.cats, FALSE)]
    /\ file' = open_file_w
    /\ handle' = [handle EXCEPT ![p] = "w"]
    /\ pc' = [pc EXCEPT ![p] = "opened"]
    /\ UNCHANGED <<nuuid, lock, work, out, file0>>
    /\ UNCHANGED storeVars

\* SimFile.create, line 579: the file, closed at line 244, is opened 'a'
SimFile_reopen(p) ==
    /\ pc[p] = "reopen"
    /\ file.exists
    /\ handle' = [handle EXCEPT ![p] = "a"]
    /\ pc' = [pc EXCEPT ![p] = "reopened"]
    /\ UNCHANGED <<file, nuuid, call, lock, work, out, file0>>
    /\ UNCHANGED storeVars

\* SimFile.create, line 580: self.exlock() names no attribute of the
\* object (File has _exlock), so AttributeError is raised; lines 583-586
\* are never run
SimFile_exlock(p) ==
    /\ pc[p] = "reopened"
    /\ Raise(p, "AttributeError")
    /\ UNCHANGED <<file, nuuid, call, handle, lock, work, file0>>
    /\ UNCHANGED storeVars

\* ------------------------------------------------------- specifications
StoreIdle ==
    /\ made = NoCall
    /\ last = NoRecord
    /\ prev = NoRecord
    /\ pre = NoFile
    /\ ncalls = 0
    /\ ops = {}
    /\ latest = {}

ProcsAt(where) ==
    /\ pc = [p \in Procs |-> where]
    /\ call = [p \in Procs |-> NoCall]
    /\ handle = [p \in Procs |-> "closed"]
    /\ lock = [p \in Procs |-> "none"]
    /\ work = [p \in Procs |-> <<>>]
    /\ out = [p \in Procs |-> NoOut]

\* Spec: the store exists, made by create with one of ProcCreates
Init ==
    /\ \E c \in ProcCreates : file = create_tables(open_file_w, 1, c.args, c.cats)
    /\ nuuid = 1
    /\ file0 = file
    /\ ProcsAt("ready")
    /\ StoreIdle

Next ==
    \E p \in Procs :
        \/ open_file(p)
        \/ shlock(p)
        \/ exlock(p)
        \/ exlock_wait(p)
        \/ exlock_deadlk(p)
        \/ body_scan(p)
        \/ body_apply(p)
        \/ close(p)

Spec == Init /\ [][Next]_vars

\* the steps of the process p in Spec
step(p) ==
    \/ open_file(p)
    \/ shlock(p)
    \/ exlock(p)
    \/ exlock_wait(p)
    \/ exlock_deadlk(p)
    \/ body_scan(p)
    \/ body_apply(p)
    \/ close(p)

\* SpecFair: Spec with every process scheduled: a process that can take a
\* step (its lockf call can return, its body can run) takes one in the end.
\* Every step of a process moves its pc.
SpecFair == Spec /\ \A p \in Procs : WF_pc(step(p))

\* SpecNew: no file at the path; each process constructs its ContainerFile
InitNew ==
    /\ file = NoFile
    /\ nuuid = 0
    /\ file0 = file
    /\ ProcsAt("new")
    /\ StoreIdle

NextNew ==
    \E p \in Procs :
        \/ check_existence(p)
        \/ create_open(p)
        \/ create_body(p)
        \/ open_file(p)
        \/ shlock(p)
        \/ exlock(p)
        \/ exlock_wait(p)
        \/ exlock_deadlk(p)
        \/ body_scan(p)
        \/ body_apply(p)
        \/ close(p)

SpecNew == InitNew /\ [][NextNew]_vars

\* SpecSim: no file at the path; each process constructs a SimFile
InitSim ==
    /\ file = NoFile
    /\ nuuid = 0
    /\ file0 = file
    /\ ProcsAt("new")
    /\ StoreIdle

NextSim ==
    \E p \in Procs :
        \/ SimFile_init(p)
        \/ SimFile_create_open(p)
        \/ create_body(p)
        \/ SimFile_reopen(p)
        \/ SimFile_exlock(p)
        \/ open_file(p)
        \/ shlock(p)
        \/ exlock(p)
        \/ exlock_wait(p)
        \/ exlock_deadlk(p)
        \/ body_scan(p)
        \/ body_apply(p)
        \/ close(p)

SpecSim == InitSim /\ [][NextSim]_vars

\* ------------------------------------------------- arguments of SpecStore
C == <<"c">>
D == <<"d">>
X == <<"x">>
K2 == <<"k", "2">>
One == <<"1">>

\* strings of the column width and up to Over characters more
Wide == {Rep("a", n) : n \in TagWidth..(TagWidth + Over)}
Widest == Rep("a", TagWidth + Over)

StoreCreates ==
    {Call("create", tags, <<>>, FALSE) :
        tags \in {<<>>, <<PyStr(A), PyStr(B), PyStr(C), PyStr(D)>>,
                  <<PyStr(A), PyStr(A)>>, <<PyInt(One), PyStr(One)>>}
                 \cup {<<PyStr(w)>> : w \in Wide}}
    \cup
    {Call("create", <<PyStr(A)>>, cats, FALSE) :
        cats \in {<<<<PyStr(K), PyStr(V1)>>>>,
                  <<<<PyStr(K), PyStr(V1)>>, <<PyStr(K2), PyStr(V2)>>>>,
                  <<<<PyInt(One), PyStr(V1)>>, <<PyStr(One), PyStr(V2)>>>>}
                 \cup {<<<<PyStr(w), PyStr(V1)>>>> : w \in Wide}
                 \cup {<<<<PyStr(K), PyStr(w)>>>> : w \in Wide}}

AddTagsArgs ==
    {<<PyStr(A)>>, <<PyStr(D)>>, <<PyStr(A), PyStr(A)>>, <<PyStr(A), PyStr(X)>>,
     <<PyInt(One)>>}
    \cup {<<PyStr(w)>> : w \in Wide}

DelTagsArgs ==
    {<<PyStr(A)>>, <<PyStr(B), PyStr(D)>>, <<PyStr(X)>>, <<PyInt(One)>>,
     <<PyStr(A), PyStr(B), PyStr(C), PyStr(D)>>, <<PyStr(Widest)>>}

AddCategoriesArgs ==
    {<<<<K, PyStr(V1)>>>>, <<<<K, PyStr(V2)>>>>, <<<<K2, PyInt(One)>>, <<K, PyStr(V1)>>>>}
    \cup {<<<<w, PyStr(V1)>>>> : w \in Wide}
    \cup {<<<<K, PyStr(w)>>>> : w \in Wide}

DelCategoriesArgs ==
    {<<PyStr(K)>>, <<PyStr(X)>>, <<PyInt(One)>>, <<PyStr(K), PyStr(K2)>>,
     <<PyStr(Widest)>>}

\* ------------------------------------------------- the calls of SpecStore
\* One process; a call is one step: inner opens the file, locks it, runs
\* the method and closes the file.
Made(c, r) ==
    /\ file' = r.file
    /\ pre' = file
    /\ prev' = last
    /\ last' = [call |-> c, value |-> r.value, exc |-> r.exc]
    /\ ncalls' = ncalls + 1
    /\ ops' = ops \cup {c.op}
    /\ latest' = IF c.op = "add_categories"
                 THEN {kv \in latest : \A i \in DOMAIN c.args : c.args[i][1] # kv[1]}
                      \cup Range(c.args)
                 ELSE latest
    /\ UNCHANGED <<nuuid, made, file0>>
    /\ UNCHANGED <<pc, call, handle, lock, work, out>>

CanCall == file.exists /\ ncalls < MaxCalls

\* ContainerFile(filename, ...) where there is no file: __init__ calls
\* create, lines 180-181 and 202-244
construct ==
    /\ ~file.exists
    /\ \E c \in StoreCreates :
         /\ file' = create_tables(open_file_w, nuuid + 1, c.args, c.cats)
         /\ made' = c
    /\ file0' = file'
    /\ nuuid' = nuuid + 1
    /\ UNCHANGED <<last, prev, pre, ncalls, ops, latest>>
    /\ UNCHANGED <<pc, call, handle, lock, work, out>>

call_get_tags ==
    /\ CanCall
    /\ LET c == Call("get_tags", <<>>, <<>>, FALSE)
       IN  \E r \in run(file, c) : Made(c, r)

call_get_categories ==
    /\ CanCall
    /\ LET c == Call("get_categories", <<>>, <<>>, FALSE)
       IN  \E r \in run(file, c) : Made(c, r)

call_add_tags ==
    /\ CanCall
    /\ \E tags \in AddTagsArgs :
         LET c == Call("add_tags", tags, <<>>, FALSE)
         IN  \E r \in run(file, c) : Made(c, r)

call_del_tags ==
    /\ CanCall
    /\ \E c \in {Call("del_tags", tags, <<>>, FALSE) : tags \in DelTagsArgs}
                \cup {Call("del_tags", <<>>, <<>>, TRUE)} :
         \E r \in run(file, c) : Made(c, r)

call_add_categories ==
    /\ CanCall
    /\ \E categories \in AddCategoriesArgs :
         LET c == Call("add_categories", categories, <<>>, FALSE)
         IN  \E r \in run(file, c) : Made(c, r)

call_del_categories ==
    /\ CanCall
    /\ \E c \in {Call("del_categories", keys, <<>>, FALSE) : keys \in DelCategoriesArgs}
                \cup {Call("del_categories", <<>>, <<>>, TRUE)} :
         \E r \in run(file, c) : Made(c, r)

InitStore ==
    /\ file = NoFile
    /\ nuuid = 0
    /\ file0 = NoFile
    /\ ProcsAt("ready")
    /\ StoreIdle

NextStore ==
    \/ construct
    \/ call_get_tags
    \/ call_get_categories
    \/ call_add_tags
    \/ call_del_tags
    \/ call_add_categories
    \/ call_del_categories

SpecStore == InitStore /\ [][NextStore]_vars

\* ========================================================= the claims
\* the wrapper's inner has been left: by return or by an exception
Exited(p) == pc[p] \in {"done", "raised"} /\ call[p].op \in ReadOps \cup WriteOps

\* C1: once inner of _read or _write has been left, by the return of the
\* method, by its exception or by the failure of the lock request, the
\* process has no open handle and holds no lock.
C1_ClosedOnEveryExit ==
    \A p \in Procs : Exited(p) => handle[p] = "closed" /\ lock[p] = "none"

\* the files the calls of the processes in S can leave, made one after the
\* other in some order, starting from the file f
RECURSIVE SerialFiles(_, _)
SerialFiles(f, S) ==
    IF S = {} THEN {f}
    ELSE UNION {UNION {SerialFiles(r.file, S \ {p}) : r \in run(f, call[p])} : p \in S}

AtRest == \A p \in Procs : pc[p] \in {"ready", "done", "raised"}

\* C2: when the calls of the processes have all ended, the file is what the
\* calls made one after the other, in some order, leave of the file the
\* processes started with: the mutations of two write calls never mix.
C2_SerialOrder ==
    AtRest => file \in SerialFiles(file0, {p \in Procs : pc[p] # "ready"})

\* two write calls of different processes have both returned and changed
\* the file
C2_Witness ==
    /\ \E p, q \in Procs : p # q /\ pc[p] = "done" /\ pc[q] = "done"
                           /\ call[p].op \in WriteOps /\ call[q].op \in WriteOps
    /\ AtRest
    /\ file # file0

\* _exlock has returned to p: p is between line 277 (203) and close
PastExlock(p) == call[p].op \notin ReadOps /\ pc[p] \in {"locked", "scanned", "ran"}

\* C3: while a process holds the exclusive lock (_exlock has returned to it
\* and it has not closed the file), no other process holds a lock, shared or
\* exclusive.
C3_Exclusion ==
    \A p, q \in Procs :
        p # q /\ (lock[p] = "ex" \/ PastExlock(p)) => lock[q] = "none"

\* a process holds the exclusive lock while another, its file open, waits
\* in _shlock
C3_Witness ==
    \E p, q \in Procs : p # q /\ lock[p] = "ex" /\ PastExlock(p) /\ pc[q] = "opened"

\* several processes hold the shared lock at once
SharedTogether == \E p, q \in Procs : p # q /\ lock[p] = "sh" /\ lock[q] = "sh"

\* C4: a step that reads the rows of a table is taken by a process holding
\* a lock, and a step that changes the file's content (truncation by create
\* included) by a process holding the exclusive lock.
C4_LockedAccess ==
    [][\A p \in Procs :
          pc'[p] # pc[p] =>
             /\ (pc[p] = "locked" /\ call[p].op # "create") => lock[p] \in {"sh", "ex"}
             /\ (file.exists /\ file' # file) => lock[p] = "ex"]_vars

\* ------------------------------------------------ claims about the tables
NoDup(rows) == \A i, j \in DOMAIN rows : i # j => rows[i] # rows[j]

IsStr(x) == x.t = "str"

\* the strings a call was given as positional arguments
Given(c) == {str(c.args[i]) : i \in DOMAIN c.args}

\* the rows of a tags table whose tag is not in the set given, in order
Kept(rows, given) == LET keep(tag) == tag \notin given IN SelectSeq(rows, keep)

\* C5: on a store created without duplicate tags, after add_tags calls
\* alone (with any arguments), no two rows of the tags table hold the same
\* tag.
C5_NoDuplicateTags ==
    (file.exists /\ NoDup(file0.tags) /\ ops \subseteq {"add_tags"}) => NoDup(file.tags)

\* C6: after del_tags(*tags) with tags that do not match every row, the
\* tags table holds exactly the rows it held whose tag is not among tags,
\* in their order.
C6_RowShift ==
    (/\ last.call.op = "del_tags"
     /\ ~last.call.all
     /\ \E r \in DOMAIN pre.tags : pre.tags[r] \notin Given(last.call))
    => /\ last.exc = ""
       /\ "tags" \in file.nodes
       /\ file.tags = Kept(pre.tags, Given(last.call))

\* del_tags('b', 'd') on the tags a, b, c, d
C6_Witness ==
    /\ last.call.op = "del_tags"
    /\ last.call.args = <<PyStr(B), PyStr(D)>>
    /\ pre.tags = <<A, B, C, D>>
    /\ file.tags = <<A, C>>

\* the call recorded in rec was a del_tags that purges the table f: all is
\* set, or the tags given match every row
Purges(rec, f) ==
    /\ rec.call.op = "del_tags"
    /\ rec.call.all \/ \A r \in DOMAIN f.tags : f.tags[r] \in Given(rec.call)

\* C7: after a del_tags with all=True, or with tags matching every row, the
\* tags table exists and is empty; an add_tags of one new tag (a str) after
\* it succeeds and leaves exactly that tag in the table.
C7_Purge ==
    /\ Purges(last, pre) => last.exc = "" /\ "tags" \in file.nodes /\ file.tags = <<>>
    /\ (/\ prev.call.op = "del_tags"
        /\ pre.tags = <<>>
        /\ last.call.op = "add_tags"
        /\ Len(last.call.args) = 1
        /\ IsStr(last.call.args[1]))
       => last.exc = "" /\ get_tags(file) = last.call.args

\* the part of C7 about del_tags alone
PurgeLeavesEmptyTable ==
    Purges(last, pre) => last.exc = "" /\ "tags" \in file.nodes /\ file.tags = <<>>

\* the rows of the categories table with the key given
RowsOf(rows, key) == {r \in DOMAIN rows : rows[r].category = key}

\* C8: on a store created with distinct keys, after add_categories calls
\* alone, each key named in a call has exactly one row, with the value (as
\* str) of the latest call naming it, and the rows created under other keys
\* are as they were.
C8_Upsert ==
    (file.exists /\ NoDup(category_keys(file0.categories)) /\ ops \subseteq {"add_categories"})
    => /\ \A kv \in latest :
            /\ Cardinality(RowsOf(file.categories, kv[1])) = 1
            /\ \A r \in RowsOf(file.categories, kv[1]) :
                   file.categories[r].value = str(kv[2])
       /\ \A r \in DOMAIN file0.categories :
            (\A kv \in latest : kv[1] # file0.categories[r].category)
            => \E q \in DOMAIN file.categories : file.categories[q] = file0.categories[r]

\* C9: del_tags(*tags) with no tag of tags in the table raises nothing and
\* leaves the tags table with the rows it had.
C9_IdempotentDelete ==
    (/\ last.call.op = "del_tags"
     /\ ~last.call.all
     /\ \A r \in DOMAIN pre.tags : pre.tags[r] \notin Given(last.call))
    => /\ last.exc = ""
       /\ "tags" \in file.nodes
       /\ file.tags = pre.tags

\* del_tags('x') on a table with rows, none of them x
C9_Witness ==
    /\ last.call.op = "del_tags"
    /\ last.call.args = <<PyStr(X)>>
    /\ pre.tags # <<>>
    /\ file.tags = pre.tags

\* del_tags('x') on an empty table
C9_WitnessEmpty ==
    /\ last.call.op = "del_tags"
    /\ last.call.args = <<PyStr(X)>>
    /\ pre.tags = <<>>
    /\ file.tags = <<>>

\* create was given str tags, and str keys and values
MadeOfStr ==
    /\ \A i \in DOMAIN made.args : IsStr(made.args[i])
    /\ \A i \in DOMAIN made.cats : IsStr(made.cats[i][1]) /\ IsStr(made.cats[i][2])

\* C10: the first call after create(tags=..., categories=...) with str
\* tags, keys and values: get_tags returns the tags given (as a set),
\* get_categories the mapping given.
C10_RoundTrip ==
    (ncalls = 1 /\ MadeOfStr)
    => /\ last.call.op = "get_tags" => Range(last.value) = Range(made.args)
       /\ last.call.op = "get_categories" => last.value = Range(made.cats)

\* an argument whose str is longer than the tag column
TooWide(x) == CanStr(x) /\ Len(str(x)) > TagWidth

\* C11: add_tags with a tag longer than the tag column (36) fails, and the
\* tags table is left as it was before the call.
C11_WidthEnforced ==
    (last.call.op = "add_tags" /\ \E i \in DOMAIN last.call.args : TooWide(last.call.args[i]))
    => last.exc # "" /\ file.tags = pre.tags

\* C12: create invoked where the file exists already fails with
\* AlreadyExists and leaves the file as it is.
C12_CreateOnExisting ==
    [][\A p \in Procs :
          (pc[p] = "create" /\ pc'[p] # "create" /\ file.exists)
          => /\ file' = file
             /\ pc'[p] = "raised"
             /\ out'[p].exc = "AlreadyExists"]_vars

\* C13: however the processes constructing a ContainerFile on the path
\* interleave, create writes the tables for one of them at most, and once
\* the meta table has its row, it keeps that row, with its uuid.
C13_CreatedOnce ==
    [][/\ nuuid' <= 1
       /\ Len(file.meta) = 1 => file'.meta = file.meta]_vars

\* the exception the method p is about to run raises on the file as it is,
\* "" when it raises none
Failure(p) ==
    IF pc[p] = "locked" /\ call[p].op \in ReadOps \cup WriteOps
    THEN scan(file, call[p], <<>>).exc
    ELSE IF pc[p] = "scanned" THEN apply_exc(call[p], work[p])
    ELSE ""

\* C14: when the method wrapped by _read or _write raises, the step that
\* runs it leaves inner with that exception: the caller gets the same
\* exception, not a return and not another error.
C14_NeverSwallows ==
    [][\A p \in Procs :
          (Failure(p) # "" /\ pc'[p] # pc[p])
          => pc'[p] = "raised" /\ out'[p].exc = Failure(p)]_vars

\* add_tags raised UnicodeEncodeError in its body, under the exclusive lock,
\* and the caller has it
C14_Witness ==
    \E p \in Procs :
        /\ pc[p] = "raised"
        /\ call[p].op = "add_tags"
        /\ lock[p] = "ex"
        /\ out[p].exc = "UnicodeEncodeError"

\* C15: right after create with str tags, each distinct tag given (that
\* fits the column) is in exactly one row of the tags table, also when the
\* list holds it more than once.
C15_CreateDeduplicates ==
    (file.exists /\ ncalls = 0 /\ MadeOfStr)
    => \A i \in DOMAIN made.args :
           Len(str(made.args[i])) <= TagWidth
           => Cardinality({r \in DOMAIN file.tags : file.tags[r] = str(made.args[i])}) = 1

\* C16: add_tags called a second time with the arguments of the call before
\* leaves the tags table as the first call left it.
C16_AddTagsIdempotent ==
    (prev.call.op = "add_tags" /\ prev.exc = "" /\ last.call = prev.call)
    => last.exc = "" /\ file.tags = pre.tags

\* C17: after create and any add_categories and del_categories calls, no
\* two rows of the categories table have the same category key.
C17_UniqueKeys ==
    file.exists => NoDup(category_keys(file.categories))

\* the rows of a categories table whose key is not in the set given, in
\* order
KeptRows(rows, given) ==
    LET keep(row) == row.category \notin given IN SelectSeq(rows, keep)

\* C18: after del_categories(*categories) the categories table holds
\* exactly the rows it held whose key is not among categories, values and
\* order unchanged; with all=True, or when every row matches, it is there
\* and empty. The tags table is as it was.
C18_DelCategories ==
    last.call.op = "del_categories"
    => /\ last.exc = ""
       /\ file.nodes = pre.nodes
       /\ file.tags = pre.tags
       /\ file.categories = IF last.call.all THEN <<>>
                            ELSE KeptRows(pre.categories, Given(last.call))

\* del_categories('k') on the rows (k, v1), (k2, v2) leaves (k2, v2)
C18_Witness ==
    /\ last.call.op = "del_categories"
    /\ ~last.call.all
    /\ Len(pre.categories) = 2
    /\ pre.categories[1].category \in Given(last.call)
    /\ file.categories = <<pre.categories[2]>>

\* del_categories naming every row leaves the table there and empty
C18_WitnessAll ==
    /\ last.call.op = "del_categories"
    /\ ~last.call.all
    /\ Len(pre.categories) = 2
    /\ file.categories = <<>>
    /\ "categories" \in file.nodes

\* two processes hold the shared lock and each waits in lockf(LOCK_EX) for
\* the other's lock to go
UpgradeDeadlock ==
    \E p, q \in Procs :
        /\ p # q
        /\ pc[p] = "exwait" /\ lock[p] = "sh"
        /\ pc[q] = "exwait" /\ lock[q] = "sh"

\* C19: with every process scheduled, a process that has taken the shared
\* lock in _exlock gets the exclusive lock in the end, and in no state do
\* two processes hold the shared lock while each waits for the exclusive
\* one.
C19_UpgradeCompletes ==
    /\ \A p \in Procs : (pc[p] = "shared") ~> (lock[p] = "ex")
    /\ [](~UpgradeDeadlock)

\* SimFile.create has written and has not ended
SimWritten(p) ==
    call[p].op = "SimFile.create" /\ pc[p] \in {"ran", "reopen", "reopened"}

\* C20: from the first write of SimFile.create to its last the process has
\* the file open and holds the exclusive lock, the universes group is
\* written, and when create has ended (returned or raised) its handle is
\* closed.
C20_SingleSession ==
    \A p \in Procs :
        /\ SimWritten(p) => handle[p] # "closed" /\ lock[p] = "ex"
        /\ (call[p].op = "SimFile.create" /\ pc[p] = "raised")
           => handle[p] = "closed" /\ "universes" \in file.nodes

TagOps == {"get_tags", "add_tags", "del_tags"}
CategoryOps == {"get_categories", "add_categories", "del_categories"}

\* C21: whatever a call gives, get_tags and get_categories change no
\* table; add_tags and del_tags (all=True and the every-row-matches path
\* included) leave the meta, coordinator and categories tables as they
\* were; add_categories and del_categories leave the meta, coordinator and
\* tags tables as they were. No table is lost.
C21_Frame ==
    last.call.op \in TagOps \cup CategoryOps
    => /\ file.exists
       /\ file.nodes = pre.nodes
       /\ file.meta = pre.meta
       /\ file.coordinator = pre.coordinator
       /\ last.call.op \in ReadOps => file = pre
       /\ last.call.op \in TagOps => file.categories = pre.categories
       /\ last.call.op \in CategoryOps => file.tags = pre.tags

\* del_tags(all=True) on a store with tags and categories: the tags table
\* comes back empty, the categories are as they were
C21_Witness ==
    /\ last.call.op = "del_tags"
    /\ last.call.all
    /\ pre.tags # <<>>
    /\ pre.categories # <<>>
    /\ file.tags = <<>>
    /\ file.categories = pre.categories
    /\ file.meta = pre.meta

\* add_categories that changes the categories table with tags in the store
C21_WitnessCategories ==
    /\ last.call.op = "add_categories"
    /\ file.categories # pre.categories
    /\ pre.tags # <<>>
    /\ file.tags = pre.tags

====
